---------------------------- MODULE Spec2Model ----------------------------
(***************************************************************************)
(* DocWeaver (itsabk/docweaver): the hierarchical summarization pipeline.  *)
(*                                                                         *)
(* One run of documentProject is modelled as a state machine whose states  *)
(* are the suspension points of the async code (the awaits on readFile,    *)
(* axios.post, the backoff timer and the save step); the synchronous code  *)
(* between two awaits is one or more steps that nothing can interleave     *)
(* with.  Text is a sequence of tokens: fixed literals of the source are   *)
(* single tokens, the empty sequence is the empty (falsy) string.          *)
(***************************************************************************)
EXTENDS Integers, Sequences, FiniteSets, TLC

(***************************************************************************)
(* Bounds of the model.                                                    *)
(***************************************************************************)
MaxFiles == 3

(***************************************************************************)
(* Program constants.                                                      *)
(***************************************************************************)
DefaultMaxRetries == 2
BaseDelayMs == 1000

(***************************************************************************)
(* Text helpers.                                                           *)
(***************************************************************************)
RECURSIVE Join(_, _)
\* Array.prototype.join: the texts of parts with sep between them.
Join(parts, sep) ==
  IF Len(parts) = 0 THEN <<>>
  ELSE IF Len(parts) = 1 THEN parts[1]
  ELSE parts[1] \o sep \o Join(Tail(parts), sep)

\* JavaScript truthiness of a string: only the empty string is falsy.
Truthy(text) == text # <<>>

\* a || b on strings.
OrElse(a, b) == IF Truthy(a) THEN a ELSE b

Sep == <<"/">>

\* A relative path (a sequence of segments) as text, segments joined by path.sep.
PathText(p) == Join([k \in 1..Len(p) |-> <<p[k]>>], Sep)

(***************************************************************************)
(* removeThinkTags: str.replace(/<think>[\s\S]*?<\/think>/g, "").          *)
(* Text that may hold tags is spelled one character per token.             *)
(***************************************************************************)
ThinkOpen == <<"<", "t", "h", "i", "n", "k", ">">>
ThinkClose == <<"<", "/", "t", "h", "i", "n", "k", ">">>

MatchAt(s, pat, k) ==
  /\ k + Len(pat) - 1 <= Len(s)
  /\ SubSeq(s, k, k + Len(pat) - 1) = pat

\* The least position >= k where pat occurs in s, 0 if none.
FindFrom(s, pat, k) ==
  LET hits == {j \in k..Len(s) : MatchAt(s, pat, j)}
  IN IF hits = {} THEN 0 ELSE CHOOSE j \in hits : \A h \in hits : j <= h

RECURSIVE StripFrom(_, _)
StripFrom(s, k) ==
  IF k > Len(s) THEN <<>>
  ELSE IF MatchAt(s, ThinkOpen, k)
       THEN LET c == FindFrom(s, ThinkClose, k + Len(ThinkOpen))
            IN IF c = 0 THEN SubSeq(s, k, Len(s))
               ELSE StripFrom(s, c + Len(ThinkClose))
       ELSE <<s[k]>> \o StripFrom(s, k + 1)

removeThinkTags(str) == StripFrom(str, 1)

(***************************************************************************)
(* Prompts.                                                                *)
(***************************************************************************)
DEFAULT_FILE_PROMPT == <<"DEFAULT_FILE_PROMPT">>
DEFAULT_MODULE_PROMPT == <<"DEFAULT_MODULE_PROMPT">>

\* The three-backquote code fence (a backquote cannot be written in a string here).
Fence == "FENCE"

\* String.prototype.trim on a text spelled with its white space as tokens of
\* their own.
WhiteSpace == {" ", "\n"}

RECURSIVE TrimStart(_)
TrimStart(text) ==
  IF Len(text) > 0 /\ text[1] \in WhiteSpace THEN TrimStart(Tail(text)) ELSE text

RECURSIVE TrimEnd(_)
TrimEnd(text) ==
  IF Len(text) > 0 /\ text[Len(text)] \in WhiteSpace
  THEN TrimEnd(SubSeq(text, 1, Len(text) - 1))
  ELSE text

Trim(text) == TrimEnd(TrimStart(text))

\* summarizeFile: the configured file prompt, or undefined (here the empty
\* text) when it is empty or white space only.
FileTemplate(customFilePrompt) ==
  IF Truthy(customFilePrompt) /\ Len(Trim(customFilePrompt)) > 0
  THEN customFilePrompt
  ELSE <<>>

\* An undefined or empty template gives the default one.
buildFilePrompt(template, codeSnippet) ==
  LET promptTemplate == IF Truthy(template) THEN Trim(template)
                        ELSE Trim(DEFAULT_FILE_PROMPT)
  IN Join(<<promptTemplate, <<"\nHere is the code snippet:\n", Fence>>, codeSnippet,
            <<Fence>>>>,
          <<"\n">>)

(***************************************************************************)
(* Fixed texts returned in place of a summary.                             *)
(***************************************************************************)
ReadErrorText == <<"Summary not available (error reading file).">>
FileDefaultText == <<"Summary not available.">>
FileOllamaErrorText == <<"Summary not available (Ollama error).">>
FileOpenAIErrorText == <<"Summary not available (OpenAI error).">>
FileNoKeyText == <<"Summary not available (no OpenAI key).">>
ModuleDefaultText == <<"Module summary not available.">>
ModuleOllamaErrorText == <<"Module summary not available (Ollama error).">>
ModuleOpenAIErrorText == <<"Module summary not available (OpenAI error).">>
ModuleNoKeyText == <<"Module summary not available (no OpenAI key).">>

(***************************************************************************)
(* The project tree.  The nested object built by buildProjectStructure is  *)
(* kept as the sequence of its nodes (each the path from the root) in the  *)
(* order the keys were inserted, which is the order Object.keys returns.   *)
(***************************************************************************)
InSeq(x, s) == \E k \in 1..Len(s) : s[k] = x

\* The tree and every node are created by the literal {}: a lookup
\* current[part] that finds no own property goes on to Object.prototype.
\* The names it finds there from the start:
BuiltinNames == {"constructor", "toString", "__proto__"}

\* While the parts of a file are walked, current is a node of the tree (at:
\* its path), Object.prototype ("proto"), the Object function ("Object"),
\* a plain object that is no node of the tree ("plain") or another
\* function ("other").  proto holds the names the walk has added to
\* Object.prototype; threw is set when an assignment throws.
AtNode(p) == [kind |-> "node", at |-> p]

Away(kind) == [kind |-> kind, at |-> <<>>]

\* The object current[part] of an inherited builtin.
Inherited(part) ==
  CASE part = "__proto__" -> Away("proto")
    [] part = "constructor" -> Away("Object")
    [] OTHER -> Away("other")

\* One pass of the inner loop:
\*   if (!current[part]) { current[part] = {}; }  current = current[part];
TreeStep(b, part) ==
  CASE b.threw -> b
    [] b.current.kind = "node" ->
         LET child == Append(b.current.at, part)
         IN IF InSeq(child, b.tree) THEN [b EXCEPT !.current = AtNode(child)]
            ELSE IF part \in BuiltinNames THEN [b EXCEPT !.current = Inherited(part)]
            ELSE IF part \in b.proto THEN [b EXCEPT !.current = Away("plain")]
            ELSE [b EXCEPT !.tree = Append(@, child), !.current = AtNode(child)]
    [] b.current.kind = "proto" ->
         \* Object.prototype.__proto__ is null, and setting it throws.
         IF part = "__proto__" THEN [b EXCEPT !.threw = TRUE]
         ELSE IF part \in BuiltinNames THEN [b EXCEPT !.current = Inherited(part)]
         ELSE [b EXCEPT !.proto = @ \cup {part}, !.current = Away("plain")]
    [] b.current.kind = "Object" ->
         IF part = "prototype" THEN [b EXCEPT !.current = Away("proto")]
         ELSE IF part \in BuiltinNames THEN [b EXCEPT !.current = Away("other")]
         ELSE [b EXCEPT !.current = Away("plain")]
    [] b.current.kind = "plain" ->
         IF part \in BuiltinNames THEN [b EXCEPT !.current = Inherited(part)]
         ELSE [b EXCEPT !.current = Away("plain")]
    [] OTHER -> [b EXCEPT !.current = Away("other")]

RECURSIVE AddNodes(_, _)
\* The inner loop over the parts of one file, from current = tree.
AddNodes(b, parts) ==
  IF Len(parts) = 0 THEN b
  ELSE AddNodes(TreeStep(b, Head(parts)), Tail(parts))

RECURSIVE BuildFrom(_, _)
\* The outer loop over the files.
BuildFrom(b, files) ==
  IF Len(files) = 0 THEN b
  ELSE BuildFrom(AddNodes([b EXCEPT !.current = AtNode(<<>>)], Head(files)), Tail(files))

\* const tree: any = {}, in a process whose Object.prototype is untouched.
EmptyTree == [tree |-> <<>>, proto |-> {}, current |-> AtNode(<<>>), threw |-> FALSE]

buildProjectStructure(files) == BuildFrom(EmptyTree, files).tree

IsChild(q, p) == Len(q) = Len(p) + 1 /\ SubSeq(q, 1, Len(p)) = p

\* Object.keys(structure) for the node at path p: the child paths in insertion order.
ChildrenOf(tree, p) == SelectSeq(tree, LAMBDA q : IsChild(q, p))

IsLeaf_OfParent(tree, p) == Len(ChildrenOf(tree, SubSeq(p, 1, Len(p) - 1))) = 0

\* Object.keys(structure[key]).length === 0
IsLeaf(tree, p) == Len(ChildrenOf(tree, p)) = 0


(***************************************************************************)
(* The path-keyed summary map (a JavaScript Map), as a function.           *)
(***************************************************************************)
EmptyMap == [p \in {} |-> <<>>]

MapHas(m, k) == k \in DOMAIN m

MapSet(m, k, v) == [p \in (DOMAIN m) \cup {k} |-> IF p = k THEN v ELSE m[p]]

RECURSIVE SetAll(_, _)
\* fileSummaries.forEach((fs) => fileSummariesMap.set(fs.file, fs.summary))
SetAll(m, entries) ==
  IF Len(entries) = 0 THEN m
  ELSE SetAll(MapSet(m, Head(entries).file, Head(entries).summary), Tail(entries))

(***************************************************************************)
(* The retry wrapper.  A call record is the state of one fetchWithRetry    *)
(* call: attempt is the local counter of the source, posts the number of   *)
(* axios.post requests issued, delays the backoff timers set so far, trace *)
(* the order of its requests ("post"), their results ("ok", "fail") and    *)
(* its timers ("sleep"), wire the text of the last reply on the wire.      *)
(***************************************************************************)
FailureKinds == {"network", "non2xx", "timeout"}

NoCall ==
  [kind |-> "none", provider |-> "none", path |-> <<>>, prompt |-> <<>>,
   maxRetries |-> DefaultMaxRetries, attempt |-> 0, posts |-> 0,
   delays |-> <<>>, failures |-> 0, status |-> "idle", body |-> <<>>,
   trace |-> <<>>, wire |-> <<>>]

\* Entry of fetchWithRetry: attempt = 0, the loop condition holds, the first
\* axios.post is issued.
FetchBegin(kind, provider, path, prompt) ==
  [NoCall EXCEPT !.kind = kind, !.provider = provider, !.path = path,
                 !.prompt = prompt, !.posts = 1, !.status = "posting",
                 !.trace = <<"post">>]

delayTime_FromBase(attempt) == (2 ^ (attempt - 1)) * BaseDelayMs

\* Math.pow(2, attempt) * 1000
delayTime(attempt) == (2 ^ attempt) * BaseDelayMs

RetriesExhausted_Late(attempt, maxRetries) == attempt > maxRetries + 1

\* if (attempt > maxRetries) throw error
RetriesExhausted(attempt, maxRetries) == attempt > maxRetries

LoopContinues_Strict(attempt, maxRetries) == attempt < maxRetries

\* while (attempt <= maxRetries)
LoopContinues(attempt, maxRetries) == attempt <= maxRetries

fetchWithRetry_AttemptNotCounted(c, r) ==
  IF r.ok
  THEN [c EXCEPT !.status = "returned", !.body = r.body,
                 !.trace = Append(@, "ok")]
  ELSE [c EXCEPT !.failures = @ + 1, !.status = "delay",
                 !.delays = Append(@, delayTime(c.attempt + 1)),
                 !.trace = @ \o <<"fail", "sleep">>]

\* The call after its pending axios.post settles with result r: a response
\* is returned at once; a failure counts the attempt and either rethrows or
\* sets the backoff timer.
fetchWithRetry(c, r) ==
  IF r.ok
  THEN [c EXCEPT !.status = "returned", !.body = r.body,
                 !.trace = Append(@, "ok")]
  ELSE LET a == c.attempt + 1
       IN IF RetriesExhausted(a, c.maxRetries)
          THEN [c EXCEPT !.attempt = a, !.failures = @ + 1, !.status = "thrown",
                         !.trace = Append(@, "fail")]
          ELSE [c EXCEPT !.attempt = a, !.failures = @ + 1, !.status = "delay",
                         !.delays = Append(@, delayTime(a)),
                         !.trace = @ \o <<"fail", "sleep">>]

\* The call after its backoff timer fires: the next iteration of the loop
\* posts again; leaving the loop returns undefined.
FetchResume(c) ==
  IF LoopContinues(c.attempt, c.maxRetries)
  THEN [c EXCEPT !.posts = @ + 1, !.status = "posting",
                 !.trace = Append(@, "post")]
  ELSE [c EXCEPT !.status = "undefined"]

(***************************************************************************)
(* The provider adapters: what the caller of fetchWithRetry returns once   *)
(* the call c has ended: a text, or an error thrown to its own caller.  A  *)
(* thrown error, and the TypeError of reading .data of an undefined        *)
(* response, both land in the adapter's catch block.                       *)
(***************************************************************************)
Returned(text) == [threw |-> FALSE, text |-> text]

Thrown == [threw |-> TRUE, text |-> <<>>]

summarizeFileWithOllama_NoCatch(c) ==
  IF c.status = "returned"
  THEN Returned(removeThinkTags(OrElse(c.body, FileDefaultText)))
  ELSE Thrown

summarizeFileWithOllama(c) ==
  IF c.status = "returned"
  THEN Returned(removeThinkTags(OrElse(c.body, FileDefaultText)))
  ELSE Returned(FileOllamaErrorText)

summarizeFileWithOpenAI(c) ==
  IF c.status = "returned"
  THEN Returned(removeThinkTags(OrElse(c.body, FileDefaultText)))
  ELSE Returned(FileOpenAIErrorText)

summarizeModuleWithOllama(c) ==
  IF c.status = "returned"
  THEN Returned(removeThinkTags(OrElse(c.body, ModuleDefaultText)))
  ELSE Returned(ModuleOllamaErrorText)

summarizeModuleWithOpenAI(c) ==
  IF c.status = "returned"
  THEN Returned(removeThinkTags(OrElse(c.body, ModuleDefaultText)))
  ELSE Returned(ModuleOpenAIErrorText)

\* processSingleFile: whatever the read or summarizeFile throws is caught
\* and replaced by the placeholder.
processSingleFile(result) ==
  IF result.threw THEN ReadErrorText ELSE result.text

\* What config.get yields for a setting that has no value.
Undefined == "undefined"

KeyMissing_Never(openaiKey) == FALSE

\* if (!openaiKey): the setting is absent or the empty string.
KeyMissing(openaiKey) == openaiKey \in {Undefined, ""}

AdapterResult(c) ==
  CASE c.kind = "file" /\ c.provider = "ollama" -> summarizeFileWithOllama(c)
    [] c.kind = "file" /\ c.provider = "openai" -> summarizeFileWithOpenAI(c)
    [] c.kind = "module" /\ c.provider = "ollama" -> summarizeModuleWithOllama(c)
    [] c.kind = "module" /\ c.provider = "openai" -> summarizeModuleWithOpenAI(c)

\* The line the adapter's catch block appends to the output channel.
AdapterErrorLog(c) ==
   [level |-> "ERROR",
    msg |-> CASE c.kind = "file" /\ c.provider = "ollama" -> "Error calling Ollama API for file"
              [] c.kind = "file" /\ c.provider = "openai" -> "Error calling OpenAI API for file"
              [] c.kind = "module" /\ c.provider = "ollama" -> "Error calling Ollama API for module summary"
              [] c.kind = "module" /\ c.provider = "openai" -> "Error calling OpenAI API for module summary",
    file |-> IF c.kind = "file" THEN c.path ELSE <<>>,
    attempt |-> 0]

AttemptErrorLog(attempt) ==
  [level |-> "ERROR", msg |-> "Error calling API (attempt)", file |-> <<>>,
   attempt |-> attempt]

KeyMissingLog ==
  [level |-> "ERROR", msg |-> "OpenAI API key is missing in settings.",
   file |-> <<>>, attempt |-> 0]

ReadErrorLog(path) ==
  [level |-> "ERROR", msg |-> "Error processing file", file |-> path, attempt |-> 0]

CancelledLog ==
  [level |-> "INFO", msg |-> "Documentation generation cancelled by user.",
   file |-> <<>>, attempt |-> 0]

SavedLog ==
  [level |-> "INFO", msg |-> "Documentation saved to folder", file |-> <<>>,
   attempt |-> 0]

SaveErrorLog ==
  [level |-> "ERROR", msg |-> "Error writing documentation", file |-> <<>>,
   attempt |-> 0]

RunErrorLog ==
  [level |-> "ERROR", msg |-> "documentProject error", file |-> <<>>,
   attempt |-> 0]


(***************************************************************************)
(* The environment: the files a run can find, what a read returns, what    *)
(* the backend answers.                                                    *)
(***************************************************************************)
\* What findFiles yields, in discovery order.
AllFiles ==
  << <<"a.txt">>, <<"dir", "b.txt">>, <<"dir", "sub", "c.txt">> >>

\* The elements of list at the positions in keep, in the order of list.
RECURSIVE Filtered(_, _)
Filtered(list, keep) ==
  IF Len(list) = 0 THEN <<>>
  ELSE LET rest == Filtered(SubSeq(list, 1, Len(list) - 1), keep)
       IN IF Len(list) \in keep THEN Append(rest, list[Len(list)]) ELSE rest

\* The lists the filter can leave: at most MaxFiles of the files found.
FileLists ==
  { Filtered(AllFiles, keep) :
      keep \in { K \in SUBSET (1..Len(AllFiles)) : Cardinality(K) <= MaxFiles } }

\* What fsp.readFile returns for a readable file: its lines.  dir/sub/c.txt
\* is an empty file, whose content splits into one empty line; a.txt has six
\* lines; any other file has one.
Content(path) ==
  IF path = <<"dir", "sub", "c.txt">> THEN << <<>> >>
  ELSE IF path = <<"a.txt">>
       THEN << <<"l1">>, <<"l2">>, <<"l3">>, <<"l4">>, <<"l5">>, <<"l6">> >>
       ELSE << <<"code of ", path[Len(path)]>> >>

ContentText(lines) == Join(lines, <<"\n">>)

FirstLines_WholeContent(lines) == Join(lines, <<"\n">>)

\* content.split("\n").slice(0, 5).join("\n")
FirstLines(lines) ==
  Join(SubSeq(lines, 1, IF Len(lines) < 5 THEN Len(lines) ELSE 5), <<"\n">>)

\* The text field of a 2xx reply: a summary, nothing, a summary after a
\* reasoning span.
Responses ==
  { <<"S">>, <<>>, ThinkOpen \o <<"r">> \o ThinkClose \o <<"S">> }

HttpResults ==
  { [ok |-> TRUE, body |-> b, error |-> "none"] : b \in Responses } \cup
  { [ok |-> FALSE, body |-> <<>>, error |-> e] : e \in FailureKinds }

\* The settings left at the defaults of package.json.
DefaultSettings ==
  [filePrompt |-> DEFAULT_FILE_PROMPT, modulePrompt |-> <<>>, saveToFile |-> TRUE,
   outputFileName |-> "DOCWEAVER_OUTPUT.md"]

Configs ==
  { c @@ DefaultSettings :
      c \in { [apiProvider |-> "ollama", openaiKey |-> ""],
              [apiProvider |-> "openai", openaiKey |-> ""],
              [apiProvider |-> "openai", openaiKey |-> Undefined],
              [apiProvider |-> "openai", openaiKey |-> "sk"],
              [apiProvider |-> "none", openaiKey |-> ""] } }

\* No recognized provider, everything else at its default.
NoProvider == [apiProvider |-> "none", openaiKey |-> ""] @@ DefaultSettings

(***************************************************************************)
(* State.                                                                  *)
(***************************************************************************)
VARIABLES
  config,            \* the docweaver settings read on every call
  filteredFiles,     \* the files that passed the filter, in discovery order
  pc,                \* where documentProject is suspended
  cancelled,         \* token.isCancellationRequested
  i,                 \* the loop index of the withProgress callback
  fileSummaries,     \* the list of {file, summary}
  fileSummariesMap,  \* the shared path-keyed store
  projectStructure,  \* the tree built after the loop
  stack,             \* the active summarizeDirectoryRecursively calls
  call,              \* the current (or last ended) fetchWithRetry call
  projectSummary,    \* the text returned by the root call
  document,          \* the assembled document
  saved,             \* whether the save step wrote the files
  webview,           \* what was handed to the webview
  notifications,     \* the messages shown to the user
  log,               \* the lines appended to the output channel
  dispatched,        \* history: the files processSingleFile was called for
  requested,         \* history: the files an axios.post was issued for
  cancelAt,          \* history: Len(fileSummaries) when cancel was raised, or -1
  aggLog,            \* history: the events of the aggregation traversal
  moduleSummaries,   \* history: what each directory's call returned
  unreadable,        \* history: the files whose read failed
  failedModules,     \* history: the directories whose backend call failed
  run,               \* the number of the current invocation of the command
  second,            \* an invocation made while the first is in progress
  opened,            \* the results of extension.openFileDocumentation
  storeLog,          \* history: the writes to the shared map
  builder,           \* a call of buildProjectStructure on its own: input and result
  filter,            \* the file filter at the head of documentProject
  think,             \* a reply passed through removeThinkTags on its own
  disk,              \* the files under <root>/DocsWeaver
  attempts           \* history: the axios.post calls of the run, where counted

vars ==
  << config, filteredFiles, pc, cancelled, i, fileSummaries, fileSummariesMap,
     projectStructure, stack, call, projectSummary, document, saved, webview,
     notifications, log, dispatched, requested, cancelAt, aggLog,
     moduleSummaries, unreadable, failedModules, run, second, opened,
     storeLog, builder, filter, think, disk, attempts >>

\* The second invocation before the command is invoked again.
NoSecond == [pc |-> "idle", files |-> <<>>, i |-> 0, summaries |-> <<>>]

NoText == <<"(none)">>

\* No document assembled: the empty text.
NoDocument == <<>>

\* No call of buildProjectStructure on its own.
NoBuilder == [files |-> <<>>, other |-> <<>>, tree |-> <<>>, built |-> FALSE]

\* No reply passed through removeThinkTags on its own.
NoThink == [input |-> <<>>, results |-> <<>>]

\* The filter has run: filteredFiles is what it left.
NoFilter ==
  [gitignore |-> <<>>, ignorePatterns |-> <<>>, rules |-> <<>>, maxFileSize |-> 0,
   sizes |-> <<>>, next |-> 0, statted |-> {}, statFailed |-> {}, verdicts |-> <<>>]

\* The value of attempts in the runs that do not count their posts.
NotCounted == -1

\* The locals and histories of a run that has summarized nothing yet, the
\* count of posts aside.
RunHistories ==
  /\ cancelled = FALSE
  /\ i = 0
  /\ fileSummaries = <<>>
  /\ fileSummariesMap = EmptyMap
  /\ projectStructure = <<>>
  /\ stack = <<>>
  /\ call = NoCall
  /\ projectSummary = NoText
  /\ document = NoDocument
  /\ saved = FALSE
  /\ webview = NoDocument
  /\ notifications = <<>>
  /\ log = {}
  /\ dispatched = <<>>
  /\ requested = {}
  /\ cancelAt = -1
  /\ aggLog = <<>>
  /\ moduleSummaries = EmptyMap
  /\ unreadable = {}
  /\ failedModules = {}
  /\ run = 1
  /\ second = NoSecond
  /\ opened = <<>>
  /\ storeLog = <<>>

\* The same, in a run that does not count its posts.
RunLocals ==
  /\ attempts = NotCounted
  /\ RunHistories

\* documentProject at the head of the withProgress loop.
RunInit ==
  /\ config \in Configs
  /\ filteredFiles \in FileLists
  /\ pc = "loop"
  /\ RunLocals

Init ==
  /\ RunInit
  /\ builder = NoBuilder
  /\ filter = NoFilter
  /\ think = NoThink
  /\ disk = EmptyMap


(***************************************************************************)
(* The withProgress loop over the filtered files.                          *)
(***************************************************************************)
CurrentFile == filteredFiles[i + 1]

LoopHasNext_OffByOne(index, files) == index < Len(files) - 1

\* for (let i = 0; i < filteredFiles.length; i++)
LoopHasNext(index, files) == index < Len(files)

BreaksLoop_Never(isCancellationRequested) == FALSE

\* if (token.isCancellationRequested) break
BreaksLoop(isCancellationRequested) == isCancellationRequested

\* processSingleFile has returned summary: the loop body records it and
\* moves on to the next index.
FinishFile(summary) ==
  /\ fileSummaries' = Append(fileSummaries, [file |-> CurrentFile, summary |-> summary])
  /\ i' = i + 1
  /\ pc' = "loop"

RootFrame == [path |-> <<>>, k |-> 1, collected |-> <<>>]

\* The writes of one forEach over entries, each with the invocation that
\* made it and whether an aggregation of another invocation was in progress.
Writes(invocation, entries, aggregating) ==
  [k \in 1..Len(entries) |->
     [invocation |-> invocation, path |-> entries[k].file, aggregating |-> aggregating]]

\* After withProgress resolves: the tree is built, the list is copied into
\* the shared map and the root call of the aggregation is entered.
AfterLoop ==
  /\ projectStructure' = buildProjectStructure(filteredFiles)
  /\ fileSummariesMap' = SetAll(fileSummariesMap, fileSummaries)
  /\ storeLog' = storeLog \o Writes(run, fileSummaries, second.pc = "aggregate")
  /\ stack' = << RootFrame >>
  /\ pc' = "aggregate"

\* The record of an ended fetchWithRetry call is dropped when its caller
\* takes its next step.
DropCall == call' = NoCall

\* The axios.post calls the step issues: one when the call starts to post.
NewPosts == IF call.status # "posting" /\ call'.status = "posting" THEN 1 ELSE 0

\* The history of posts is kept only in the runs that start it at 0.
CountPosts ==
  attempts' = IF attempts = NotCounted THEN NotCounted ELSE attempts + NewPosts

\* The loop head finds another file and no cancellation: processSingleFile
\* is called and suspends on fsp.readFile.
LoopDispatch ==
  /\ pc = "loop"
  /\ LoopHasNext(i, filteredFiles)
  /\ ~BreaksLoop(cancelled)
  /\ dispatched' = Append(dispatched, CurrentFile)
  /\ pc' = "reading"
  /\ DropCall
  /\ UNCHANGED << attempts, think, disk, builder, filter, config, filteredFiles, run, second, opened, storeLog, cancelled, i, fileSummaries,
                  fileSummariesMap, projectStructure, stack, projectSummary,
                  document, saved, webview, notifications, log, requested,
                  cancelAt, aggLog, moduleSummaries, unreadable, failedModules >>

\* The loop head sees the cancellation: it logs and breaks, and
\* documentProject goes on with what follows the loop.
LoopBreak ==
  /\ pc = "loop"
  /\ LoopHasNext(i, filteredFiles)
  /\ BreaksLoop(cancelled)
  /\ log' = log \cup {CancelledLog}
  /\ AfterLoop
  /\ DropCall
  /\ UNCHANGED << attempts, think, disk, builder, filter, config, filteredFiles, run, second, opened, cancelled, i, fileSummaries,
                  projectSummary, document, saved, webview, notifications,
                  dispatched, requested, cancelAt, aggLog, moduleSummaries,
                  unreadable, failedModules >>

\* The loop has run through every file.
LoopEnd ==
  /\ pc = "loop"
  /\ ~LoopHasNext(i, filteredFiles)
  /\ AfterLoop
  /\ DropCall
  /\ UNCHANGED << attempts, think, disk, builder, filter, config, filteredFiles, run, second, opened, cancelled, i, fileSummaries,
                  projectSummary, document, saved, webview, notifications, log,
                  dispatched, requested, cancelAt, aggLog, moduleSummaries,
                  unreadable, failedModules >>

\* The callback is suspended on a file: its read, its request or its
\* backoff timer.
InFileAwait ==
  \/ pc = "reading"
  \/ pc \in {"http", "backoff"} /\ call.kind = "file"

\* The user presses Cancel on the progress notification.
Cancel ==
  /\ InFileAwait
  /\ ~cancelled
  /\ cancelled' = TRUE
  /\ cancelAt' = Len(fileSummaries)
  /\ UNCHANGED << attempts, think, disk, builder, filter, config, filteredFiles, run, second, opened, storeLog, pc, i, fileSummaries, fileSummariesMap,
                  projectStructure, stack, call, projectSummary, document, saved,
                  webview, notifications, log, dispatched, requested, aggLog,
                  moduleSummaries, unreadable, failedModules >>

\* processSingleFile / summarizeFile: fsp.readFile settles.  A failed read
\* is caught and gives the placeholder; a read file goes to the provider
\* switch.
ReadSettles ==
  /\ pc = "reading"
  /\ \E readOk \in BOOLEAN :
       IF ~readOk
       THEN /\ log' = log \cup {ReadErrorLog(CurrentFile)}
            /\ unreadable' = unreadable \cup {CurrentFile}
            /\ FinishFile(processSingleFile(Thrown))
            /\ UNCHANGED << call, requested >>
       ELSE LET content == Content(CurrentFile)
                finalPrompt == buildFilePrompt(FileTemplate(config.filePrompt),
                                              ContentText(content))
            IN /\ UNCHANGED unreadable
               /\ CASE config.apiProvider = "ollama" ->
                         /\ call' = FetchBegin("file", "ollama", CurrentFile, finalPrompt)
                         /\ requested' = requested \cup {CurrentFile}
                         /\ pc' = "http"
                         /\ UNCHANGED << log, fileSummaries, i >>
                    [] config.apiProvider = "openai" ->
                         IF KeyMissing(config.openaiKey)
                         THEN /\ log' = log \cup {KeyMissingLog}
                              /\ FinishFile(processSingleFile(Returned(FileNoKeyText)))
                              /\ UNCHANGED << call, requested >>
                         ELSE /\ call' = FetchBegin("file", "openai", CurrentFile, finalPrompt)
                              /\ requested' = requested \cup {CurrentFile}
                              /\ pc' = "http"
                              /\ UNCHANGED << log, fileSummaries, i >>
                    [] OTHER ->
                         /\ FinishFile(processSingleFile(Returned(FirstLines(content))))
                         /\ UNCHANGED << call, requested, log >>
  /\ CountPosts
  /\ UNCHANGED << think, disk, builder, filter, config, filteredFiles, run, second, opened, storeLog, cancelled, fileSummariesMap,
                  projectStructure, stack, projectSummary, document, saved,
                  webview, notifications, dispatched, cancelAt, aggLog,
                  moduleSummaries, failedModules >>

(***************************************************************************)
(* The hierarchical aggregation: summarizeDirectoryRecursively.  Each      *)
(* frame of the stack is one active call: the node's path, the index of    *)
(* the next key of Object.keys(structure), the fragments collected so far. *)
(* aggLog records a "lookup" for each leaf looked up in the map (with the   *)
(* fragments it pushed), a "call" when a directory's adapter is called     *)
(* (with the fragments collected and the prompt) and "resolved" when the   *)
(* directory's call of summarizeDirectoryRecursively returns (with the     *)
(* text returned).                                                         *)
(***************************************************************************)
AggEvent(ev, node, frags, text) ==
  [ev |-> ev, node |-> node, frags |-> frags, text |-> text]

Top == stack[Len(stack)]

Keys(frame) == ChildrenOf(projectStructure, frame.path)

AllChildrenVisited_Early(frame, keys) == frame.k >= Len(keys)

\* The for loop over Object.keys(structure) has run through every key.
AllChildrenVisited(frame, keys) == frame.k > Len(keys)

FileFragment(childPath, fileSummary) ==
  <<"File: ">> \o PathText(childPath) \o <<"\nSummary: ">> \o fileSummary

ModuleFragment_Bare(childPath, submoduleSummary) == submoduleSummary

ModuleFragment(childPath, submoduleSummary) ==
  <<"Module: ">> \o PathText(childPath) \o <<"\nSummary: ">> \o submoduleSummary

\* The fragments a leaf adds: its summary when the map has a truthy one.
LeafFragments(map, childPath) ==
  IF MapHas(map, childPath) /\ Truthy(map[childPath])
  THEN << FileFragment(childPath, map[childPath]) >>
  ELSE <<>>

ModulePrompt_NoBlankLine(collected) ==
  DEFAULT_MODULE_PROMPT \o <<"\n\n">> \o Join(collected, <<"\n">>)

\* `${DEFAULT_MODULE_PROMPT}\n\n${combinedSummaries}`
ModulePrompt(collected) ==
  DEFAULT_MODULE_PROMPT \o <<"\n\n">> \o Join(collected, <<"\n\n">>)

\* A part of the document: the table of contents, the "## Project Summary"
\* section, a "### <file>" subsection, or the "## Project Structure" section
\* with the tree as JSON.stringify writes it (the nodes in key order).
Section(kind, file, text, tree) ==
  [section |-> kind, file |-> file, text |-> text, tree |-> tree]

TableOfContents == Section("tableOfContents", <<>>, <<>>, <<>>)

FileSections(summaries) ==
  [k \in 1..Len(summaries) |->
     Section("file", summaries[k].file, summaries[k].summary, <<>>)]

generateDocumentationContent_StructureFirst(summaries, structure, summary) ==
  << TableOfContents, Section("projectStructure", <<>>, <<>>, structure),
     Section("projectSummary", <<>>, summary, <<>>) >> \o FileSections(summaries)

\* The document: the table of contents, the summary section, one subsection
\* per list entry, the serialized tree.
generateDocumentationContent(summaries, structure, summary) ==
  << TableOfContents, Section("projectSummary", <<>>, summary, <<>>) >> \o
  FileSections(summaries) \o
  << Section("projectStructure", <<>>, <<>>, structure) >>

\* What a document says: its project summary, its file subsections, its tree.
PartsOf(doc, kind) == SelectSeq(doc, LAMBDA part : part.section = kind)

DocProjectSummary(doc) == PartsOf(doc, "projectSummary")[1].text

DocFileSummaries(doc) ==
  LET parts == PartsOf(doc, "file")
  IN [k \in 1..Len(parts) |-> [file |-> parts[k].file, summary |-> parts[k].text]]

DocProjectStructure(doc) == PartsOf(doc, "projectStructure")[1].tree

SavedMessage ==
  [kind |-> "information", text |-> "Project documentation saved in the DocsWeaver folder."]

SaveFailedMessage ==
  [kind |-> "error", text |-> "Failed to save documentation in the DocsWeaver folder."]

RunFailedMessage ==
  [kind |-> "error", text |-> "Error generating documentation. See 'DocWeaver' output for details."]

\* The top call returns text.  The root's text is the project summary: the
\* document is assembled and the save step begins.  Any other text is
\* wrapped and pushed onto the parent's list.
ReturnModule(text) ==
  /\ moduleSummaries' = MapSet(moduleSummaries, Top.path, text)
  /\ UNCHANGED notifications
  /\ IF Len(stack) = 1
     THEN /\ projectSummary' = text
          /\ document' = generateDocumentationContent(fileSummaries, projectStructure, text)
          /\ stack' = <<>>
          /\ pc' = "save"
     ELSE /\ stack' = [SubSeq(stack, 1, Len(stack) - 1) EXCEPT
                         ![Len(stack) - 1] =
                            [@ EXCEPT !.k = @ + 1,
                                      !.collected = Append(@, ModuleFragment(Top.path, text))]]
          /\ pc' = "aggregate"
          /\ UNCHANGED << projectSummary, document >>

\* An error thrown by the top call's adapter is caught by no frame: it
\* rejects documentProject, and the command handler reports it.
RejectRun ==
  /\ stack' = <<>>
  /\ pc' = "failed"
  /\ notifications' = Append(notifications, RunFailedMessage)
  /\ UNCHANGED << moduleSummaries, projectSummary, document >>

\* The adapter called for the top frame has ended with result.
EndModule(result) ==
  IF result.threw THEN RejectRun ELSE ReturnModule(result.text)

\* The next key is a leaf: its summary is looked up in the map.
AggVisitLeaf ==
  /\ pc = "aggregate"
  /\ ~AllChildrenVisited(Top, Keys(Top))
  /\ LET childPath == Keys(Top)[Top.k]
     IN /\ IsLeaf(projectStructure, childPath)
        /\ stack' = [stack EXCEPT ![Len(stack)] =
                       [@ EXCEPT !.k = @ + 1,
                                 !.collected = @ \o LeafFragments(fileSummariesMap, childPath)]]
        /\ aggLog' = Append(aggLog, AggEvent("lookup", childPath,
                                              LeafFragments(fileSummariesMap, childPath),
                                              <<>>))
  /\ DropCall
  /\ UNCHANGED << attempts, think, disk, builder, filter, config, filteredFiles, run, second, opened, storeLog, pc, cancelled, i, fileSummaries,
                  fileSummariesMap, projectStructure, projectSummary, document,
                  saved, webview, notifications, log, dispatched, requested,
                  cancelAt, moduleSummaries, unreadable, failedModules >>

\* The next key is a subdirectory: the recursive call is entered.
AggDescend ==
  /\ pc = "aggregate"
  /\ ~AllChildrenVisited(Top, Keys(Top))
  /\ LET childPath == Keys(Top)[Top.k]
     IN /\ ~IsLeaf(projectStructure, childPath)
        /\ stack' = Append(stack, [path |-> childPath, k |-> 1, collected |-> <<>>])
  /\ DropCall
  /\ UNCHANGED << attempts, think, disk, builder, filter, config, filteredFiles, run, second, opened, storeLog, pc, cancelled, i, fileSummaries,
                  fileSummariesMap, projectStructure, projectSummary, document,
                  saved, webview, notifications, log, dispatched, requested,
                  cancelAt, aggLog, moduleSummaries, unreadable, failedModules >>

\* Every key is done: the prompt is built and the provider switch taken.
AggInvoke ==
  /\ pc = "aggregate"
  /\ AllChildrenVisited(Top, Keys(Top))
  /\ LET modulePrompt == ModulePrompt(Top.collected)
         combinedSummaries == Join(Top.collected, <<"\n\n">>)
         called == AggEvent("call", Top.path, Top.collected, modulePrompt)
         noKey == AggEvent("resolved", Top.path, <<>>, ModuleNoKeyText)
         plain == AggEvent("resolved", Top.path, <<>>, combinedSummaries)
     IN CASE config.apiProvider = "ollama" ->
               /\ call' = FetchBegin("module", "ollama", Top.path, modulePrompt)
               /\ pc' = "http"
               /\ aggLog' = Append(aggLog, called)
               /\ UNCHANGED << stack, moduleSummaries, projectSummary, document,
                               log, notifications >>
          [] config.apiProvider = "openai" ->
               IF KeyMissing(config.openaiKey)
               THEN /\ log' = log \cup {KeyMissingLog}
                    /\ aggLog' = aggLog \o << called, noKey >>
                    /\ ReturnModule(ModuleNoKeyText)
                    /\ DropCall
               ELSE /\ call' = FetchBegin("module", "openai", Top.path, modulePrompt)
                    /\ pc' = "http"
                    /\ aggLog' = Append(aggLog, called)
                    /\ UNCHANGED << stack, moduleSummaries, projectSummary,
                                    document, log, notifications >>
          [] OTHER ->
               /\ aggLog' = Append(aggLog, plain)
               /\ ReturnModule(combinedSummaries)
               /\ DropCall
               /\ UNCHANGED log
  /\ CountPosts
  /\ UNCHANGED << think, disk, builder, filter, config, filteredFiles, run, second, opened, storeLog, cancelled, i, fileSummaries,
                  fileSummariesMap, projectStructure, saved, webview,
                  dispatched, requested, cancelAt, unreadable, failedModules >>

(***************************************************************************)
(* The suspension points of fetchWithRetry.                                *)
(***************************************************************************)
\* fetchWithRetry has ended (returned, thrown, or fallen out of its loop):
\* the adapter computes its result and its caller resumes.
CallerContinues(c, fetchLog) ==
  LET result == AdapterResult(c)
      caught == IF c.status = "returned" THEN {} ELSE {AdapterErrorLog(c)}
  IN /\ call' = c
     /\ IF c.kind = "file"
        THEN /\ FinishFile(processSingleFile(result))
             /\ log' = log \cup fetchLog \cup caught \cup
                         (IF result.threw THEN {ReadErrorLog(c.path)} ELSE {})
             /\ UNCHANGED << stack, moduleSummaries, projectSummary, document,
                             aggLog, notifications, failedModules >>
        ELSE /\ EndModule(result)
             /\ log' = log \cup fetchLog \cup caught \cup
                         (IF result.threw THEN {RunErrorLog} ELSE {})
             /\ aggLog' = Append(aggLog, AggEvent("resolved", Top.path, <<>>,
                                                   IF result.threw THEN <<>> ELSE result.text))
             /\ failedModules' = IF c.status = "returned" THEN failedModules
                                 ELSE failedModules \cup {Top.path}
             /\ UNCHANGED << fileSummaries, i >>

\* The pending axios.post settles with result r.
HttpSettles ==
  /\ pc = "http"
  /\ \E r \in HttpResults :
       LET c == [fetchWithRetry(call, r) EXCEPT !.wire = r.body]
           fetchLog == IF r.ok THEN {} ELSE {AttemptErrorLog(c.attempt)}
       IN IF c.status \in {"delay", "posting"}
          THEN /\ call' = c
               /\ log' = log \cup fetchLog
               /\ pc' = IF c.status = "delay" THEN "backoff" ELSE "http"
               /\ UNCHANGED << fileSummaries, i, stack, moduleSummaries,
                               projectSummary, document, aggLog, notifications,
                               failedModules >>
          ELSE CallerContinues(c, fetchLog)
  /\ UNCHANGED << attempts, think, disk, builder, filter, config, filteredFiles, run, second, opened, storeLog, cancelled, fileSummariesMap,
                  projectStructure, saved, webview, dispatched, requested,
                  cancelAt, unreadable >>

\* The backoff timer fires.
BackoffElapses ==
  /\ pc = "backoff"
  /\ LET c == FetchResume(call)
     IN IF c.status = "posting"
        THEN /\ call' = c
             /\ pc' = "http"
             /\ UNCHANGED << log, fileSummaries, i, stack, moduleSummaries,
                             projectSummary, document, aggLog, notifications,
                             failedModules >>
        ELSE CallerContinues(c, {})
  /\ CountPosts
  /\ UNCHANGED << think, disk, builder, filter, config, filteredFiles, run, second, opened, storeLog, cancelled, fileSummariesMap,
                  projectStructure, saved, webview, dispatched, requested,
                  cancelAt, unreadable >>

(***************************************************************************)
(* The save step and the webview.                                          *)
(***************************************************************************)
\* config.get("saveToFile") || true
SaveToFile(setting) == IF setting THEN setting ELSE TRUE

\* config.get("outputFileName") || "PROJECT_DOCUMENTATION.md"
OutputFileName(setting) == IF setting = "" THEN "PROJECT_DOCUMENTATION.md" ELSE setting

\* path.parse(fileName).name + ".md" for the file names at hand.
MdName(fileName) ==
  CASE fileName \in {"a.txt", "a.ts", "a.js"} -> "a.md"
    [] fileName = "b.txt" -> "b.md"
    [] fileName = "c.txt" -> "c.md"
    [] fileName = "DOCWEAVER_OUTPUT.txt" -> "DOCWEAVER_OUTPUT.md"

\* The path, below DocsWeaver, a file's summary is written to: the file's
\* directory and its name with the extension replaced by .md.
TargetPath(file) ==
  SubSeq(file, 1, Len(file) - 1) \o << MdName(file[Len(file)]) >>

\* What a file of DocsWeaver holds: the document or a file's summary.
Written(kind, file, doc, summary) ==
  [kind |-> kind, file |-> file, document |-> doc, summary |-> summary]

\* The writeFile calls of the save step, in order.
SaveWrites(outputFileName, doc, summaries) ==
  << [path |-> << outputFileName >>, content |-> Written("document", <<>>, doc, <<>>)] >> \o
  [k \in 1..Len(summaries) |->
     [path |-> TargetPath(summaries[k].file),
      content |-> Written("summary", summaries[k].file, <<>>, summaries[k].summary)]]

\* The disk after the first n of the writes.
RECURSIVE Apply(_, _, _)
Apply(d, writes, n) ==
  IF n = 0 THEN d
  ELSE MapSet(Apply(d, writes, n - 1), writes[n].path, writes[n].content)

\* The save step is entered when saveToFile holds.  Its writes settle: the
\* first n succeed, and a failure of the next one is caught and reported.
\* Then the document is shown and documentProject resolves.
SaveSettles ==
  /\ pc = "save"
  /\ IF SaveToFile(config.saveToFile)
     THEN LET writes == SaveWrites(OutputFileName(config.outputFileName), document,
                                   fileSummaries)
          IN \E n \in 0..Len(writes) :
               LET writeOk == n = Len(writes)
               IN /\ disk' = Apply(disk, writes, n)
                  /\ saved' = writeOk
                  /\ notifications' = Append(notifications,
                                             IF writeOk THEN SavedMessage
                                             ELSE SaveFailedMessage)
                  /\ log' = log \cup {IF writeOk THEN SavedLog ELSE SaveErrorLog}
     ELSE UNCHANGED << attempts, disk, saved, notifications, log >>
  /\ webview' = document
  /\ pc' = "done"
  /\ DropCall
  /\ UNCHANGED << attempts, think, builder, filter, config, filteredFiles, run, second, opened,
                  storeLog, cancelled, i, fileSummaries, fileSummariesMap,
                  projectStructure, stack, projectSummary, document, dispatched,
                  requested, cancelAt, aggLog, moduleSummaries, unreadable,
                  failedModules >>

Next ==
  \/ LoopDispatch
  \/ LoopBreak
  \/ LoopEnd
  \/ Cancel
  \/ ReadSettles
  \/ HttpSettles
  \/ BackoffElapses
  \/ AggVisitLeaf
  \/ AggDescend
  \/ AggInvoke
  \/ SaveSettles

Spec == Init /\ [][Next]_vars


(***************************************************************************)
(* The session of the extension: the command can be invoked again, after   *)
(* a run has ended or while one is in progress, and a summary can be       *)
(* opened from the tree view.  The map is the module-level store, shared   *)
(* by every invocation and never cleared.                                  *)
(***************************************************************************)
MaxRuns == 2
MaxLookups == 1

\* The command is invoked after the previous run has ended: documentProject
\* starts with fresh locals; the histories restart with it.
Rerun ==
  /\ pc \in {"done", "failed"}
  /\ run < MaxRuns
  /\ run' = run + 1
  /\ filteredFiles' \in FileLists
  /\ pc' = "loop"
  /\ cancelled' = FALSE
  /\ i' = 0
  /\ fileSummaries' = <<>>
  /\ projectStructure' = <<>>
  /\ stack' = <<>>
  /\ call' = NoCall
  /\ projectSummary' = NoText
  /\ document' = NoDocument
  /\ saved' = FALSE
  /\ webview' = NoDocument
  /\ notifications' = <<>>
  /\ log' = {}
  /\ dispatched' = <<>>
  /\ requested' = {}
  /\ cancelAt' = -1
  /\ aggLog' = <<>>
  /\ moduleSummaries' = EmptyMap
  /\ unreadable' = {}
  /\ failedModules' = {}
  /\ storeLog' = <<>>
  /\ attempts' = IF attempts = NotCounted THEN NotCounted ELSE 0
  /\ UNCHANGED << think, disk, builder, filter, config, fileSummariesMap, second, opened >>

\* The paths an item of the tree view can carry.
KnownPaths == { AllFiles[n] : n \in 1..Len(AllFiles) }

\* extension.openFileDocumentation: the summary is shown in a document, or
\* the error message when the lookup gives nothing truthy.
OpenFileDocumentation ==
  /\ Len(opened) < MaxLookups
  /\ \E relativePath \in KnownPaths :
       LET summary == IF MapHas(fileSummariesMap, relativePath)
                      THEN fileSummariesMap[relativePath]
                      ELSE <<>>
       IN opened' = Append(opened, [path |-> relativePath,
                                    present |-> MapHas(fileSummariesMap, relativePath),
                                    shown |-> Truthy(summary),
                                    content |-> summary])
  /\ UNCHANGED << attempts, think, disk, builder, filter, config, filteredFiles, pc, cancelled, i, fileSummaries,
                  fileSummariesMap, projectStructure, stack, call, projectSummary,
                  document, saved, webview, notifications, log, dispatched,
                  requested, cancelAt, aggLog, moduleSummaries, unreadable,
                  failedModules, run, second, storeLog >>

\* The settings under which a run makes no request.
InitRuns ==
  /\ Init
  /\ config.apiProvider = "none" \/ KeyMissing(config.openaiKey)

NextRuns ==
  \/ LoopDispatch
  \/ LoopBreak
  \/ LoopEnd
  \/ Cancel
  \/ ReadSettles
  \/ AggVisitLeaf
  \/ AggDescend
  \/ AggInvoke
  \/ SaveSettles
  \/ Rerun
  \/ OpenFileDocumentation

SpecRuns == InitRuns /\ [][NextRuns]_vars

(***************************************************************************)
(* A second invocation while the first is in progress.  The handler has    *)
(* no guard against it.  The second documentProject runs the same code     *)
(* with its own locals; its steps are the settling of its awaits, taken    *)
(* while the first invocation is itself suspended on an await: each        *)
(* processSingleFile of its loop (with the text it returns), withProgress, *)
(* and the rest of the run after the map is written.                       *)
(***************************************************************************)
ConcurrentFiles == << <<"a.txt">>, <<"dir", "b.txt">> >>

SecondFileLists == { << <<"a.txt">> >>, << <<"dir", "sub", "c.txt">> >> }

\* What processSingleFile can return under the local provider.
SecondSummaries == { <<"S">>, FileOllamaErrorText, ReadErrorText }

\* The first invocation is suspended on an await.
FirstAwaiting ==
  \/ pc \in {"reading", "http", "backoff", "save", "done"}
  \/ pc = "loop" /\ ~LoopHasNext(i, filteredFiles)

\* The first invocation is inside summarizeDirectoryRecursively.
FirstAggregating == pc \in {"http", "backoff"} /\ call.kind = "module"

InvokeAgain ==
  /\ second.pc = "idle"
  /\ FirstAwaiting
  /\ pc # "done"
  /\ \E files \in SecondFileLists :
       second' = [pc |-> "loop", files |-> files, i |-> 0, summaries |-> <<>>]
  /\ UNCHANGED << attempts, think, disk, builder, filter, config, filteredFiles, pc, cancelled, i, fileSummaries,
                  fileSummariesMap, projectStructure, stack, call, projectSummary,
                  document, saved, webview, notifications, log, dispatched,
                  requested, cancelAt, aggLog, moduleSummaries, unreadable,
                  failedModules, run, opened, storeLog >>

\* The awaited processSingleFile of the second invocation returns.
SecondFileSettles ==
  /\ second.pc = "loop"
  /\ LoopHasNext(second.i, second.files)
  /\ FirstAwaiting
  /\ \E summary \in SecondSummaries :
       second' = [second EXCEPT
                    !.summaries = Append(@, [file |-> second.files[second.i + 1],
                                             summary |-> summary]),
                    !.i = @ + 1]
  /\ UNCHANGED << attempts, think, disk, builder, filter, config, filteredFiles, pc, cancelled, i, fileSummaries,
                  fileSummariesMap, projectStructure, stack, call, projectSummary,
                  document, saved, webview, notifications, log, dispatched,
                  requested, cancelAt, aggLog, moduleSummaries, unreadable,
                  failedModules, run, opened, storeLog >>

\* withProgress of the second invocation resolves: its list is copied into
\* the shared map and its aggregation begins.
SecondAfterLoop ==
  /\ second.pc = "loop"
  /\ ~LoopHasNext(second.i, second.files)
  /\ FirstAwaiting
  /\ fileSummariesMap' = SetAll(fileSummariesMap, second.summaries)
  /\ storeLog' = storeLog \o Writes(run + 1, second.summaries, FirstAggregating)
  /\ second' = [second EXCEPT !.pc = "aggregate"]
  /\ UNCHANGED << attempts, think, disk, builder, filter, config, filteredFiles, pc, cancelled, i, fileSummaries,
                  projectStructure, stack, call, projectSummary, document, saved,
                  webview, notifications, log, dispatched, requested, cancelAt,
                  aggLog, moduleSummaries, unreadable, failedModules, run, opened >>

\* The aggregation and the save step of the second invocation are over.
SecondSettles ==
  /\ second.pc = "aggregate"
  /\ FirstAwaiting
  /\ second' = [second EXCEPT !.pc = "done"]
  /\ UNCHANGED << attempts, think, disk, builder, filter, config, filteredFiles, pc, cancelled, i, fileSummaries,
                  fileSummariesMap, projectStructure, stack, call, projectSummary,
                  document, saved, webview, notifications, log, dispatched,
                  requested, cancelAt, aggLog, moduleSummaries, unreadable,
                  failedModules, run, opened, storeLog >>

InitConcurrent ==
  /\ Init
  /\ config.apiProvider = "ollama"
  /\ filteredFiles = ConcurrentFiles

NextConcurrent ==
  \/ Next
  \/ InvokeAgain
  \/ SecondFileSettles
  \/ SecondAfterLoop
  \/ SecondSettles

SpecConcurrent == InitConcurrent /\ [][NextConcurrent]_vars


(***************************************************************************)
(* buildProjectStructure on its own: applied to a list of relative paths   *)
(* (distinct, none a directory of another), with a second ordering of the  *)
(* same paths at hand.                                                     *)
(***************************************************************************)
MaxTreeFiles == 3

TreePaths ==
  { <<"x">>, <<"__proto__", "x">>, <<"constructor", "index.ts">>, <<"dir", "y">>,
    <<"dir", "toString">> }

\* The sequences of n distinct elements of S.
Arrangements(S, n) ==
  { q \in [1..n -> S] : \A j, k \in 1..n : q[j] = q[k] => j = k }

Range(q) == { q[k] : k \in 1..Len(q) }

TreeInputs == UNION { Arrangements(TreePaths, n) : n \in 0..MaxTreeFiles }

InitTree ==
  /\ RunInit
  /\ config = NoProvider
  /\ filteredFiles = <<>>
  /\ filter = NoFilter
  /\ think = NoThink
  /\ disk = EmptyMap
  /\ \E files \in TreeInputs :
       \E other \in Arrangements(Range(files), Len(files)) :
         builder = [files |-> files, other |-> other, tree |-> <<>>, built |-> FALSE]

BuildTree ==
  /\ ~builder.built
  /\ builder' = [builder EXCEPT !.tree = buildProjectStructure(builder.files),
                                !.built = TRUE]
  /\ UNCHANGED << attempts, think, disk, filter, config, filteredFiles, pc, cancelled, i, fileSummaries,
                  fileSummariesMap, projectStructure, stack, call, projectSummary,
                  document, saved, webview, notifications, log, dispatched,
                  requested, cancelAt, aggLog, moduleSummaries, unreadable,
                  failedModules, run, second, opened, storeLog >>

NextTree == BuildTree

SpecTree == InitTree /\ [][NextTree]_vars


(***************************************************************************)
(* The file filter at the head of documentProject: the ignore rules are    *)
(* loaded, then every file found is tested against them and, under a       *)
(* positive size limit, statted.                                           *)
(***************************************************************************)
MaxLimit == 2

\* docweaver.maxFileSizeBytes, and the sizes a file can have around it.
Limits == 0..MaxLimit

Sizes == 0..(MaxLimit + 1)

\* A line of an ignore file is a name, or "!" and a name; an empty line is
\* no pattern.
Negative(pattern) == pattern[1] = "!"

PatternName(pattern) == pattern[Len(pattern)]

\* What fsp.readFile finds at <root>/.gitignore.
GitignoreFiles ==
  { [exists |-> FALSE, lines |-> <<>>],
    [exists |-> TRUE, lines |-> <<>>],
    [exists |-> TRUE, lines |-> << <<"dir">> >>],
    [exists |-> TRUE, lines |-> << <<"b.txt">>, <<>> >>] }

\* docweaver.ignorePatterns
IgnorePatternLists ==
  { <<>>, << <<"!", "b.txt">> >>, << <<"sub">> >>, << <<"a.txt">> >> }

\* ig.add: the patterns are appended to the rules, empty lines dropped.
AddRules(rules, lines) == rules \o SelectSeq(lines, LAMBDA l : l # <<>>)

\* The rules after the .gitignore and the configured patterns were added.
MergedRules(gitignore, ignorePatterns) ==
  AddRules(IF gitignore.exists THEN AddRules(<<>>, gitignore.lines) ELSE <<>>,
           ignorePatterns)

\* The rules tested on one path (a file or a directory): the last rule naming
\* it decides, a negative rule un-ignores.
TestOne(rules, p) ==
  LET matching == { k \in 1..Len(rules) : PatternName(rules[k]) = p[Len(p)] }
  IN /\ matching # {}
     /\ ~Negative(rules[CHOOSE k \in matching : \A j \in matching : j <= k])

\* ig.ignores(relative): a path is ignored when a directory on it is, and
\* otherwise when the rules say so for the path itself.
Ignores(rules, path) ==
  \E m \in 1..Len(path) : TestOne(rules, SubSeq(path, 1, m))

\* if (ig.ignores(relative)) continue; if (maxFileSize > 0) { stat }
NeedsStat_BeforeIgnoreTest(ignored, maxFileSize) == maxFileSize > 0
NeedsStat(ignored, maxFileSize) == ~ignored /\ maxFileSize > 0

\* catch (err) { logError(...); continue; }: the loop goes on to the file
\* after the one whose stat failed.
AfterStatError_Break(next) == Len(AllFiles)
AfterStatError(next) == next + 1

\* stats.size > maxFileSize
TooLarge_AtLimit(size, maxFileSize) == size >= maxFileSize
TooLarge(size, maxFileSize) == size > maxFileSize

SkipLog(path, size) ==
  [level |-> "INFO", msg |-> "Skipping (exceeds max file size)", file |-> path,
   attempt |-> 0, size |-> size]

StatErrorLog(path) ==
  [level |-> "ERROR", msg |-> "Error reading stats", file |-> path, attempt |-> 0]

NoGitignoreLog ==
  [level |-> "INFO", msg |-> "No .gitignore found or error reading .gitignore.",
   file |-> <<>>, attempt |-> 0]

\* documentProject after the settings were read; findFiles will return
\* AllFiles, in this order.
InitFilter ==
  /\ RunLocals
  /\ config = NoProvider
  /\ filteredFiles = <<>>
  /\ pc = "rules"
  /\ builder = NoBuilder
  /\ think = NoThink
  /\ disk = EmptyMap
  /\ \E gitignore \in GitignoreFiles, ignorePatterns \in IgnorePatternLists,
        maxFileSize \in Limits, sizes \in [1..Len(AllFiles) -> Sizes] :
       filter = [gitignore |-> gitignore, ignorePatterns |-> ignorePatterns,
                 rules |-> <<>>, maxFileSize |-> maxFileSize, sizes |-> sizes,
                 next |-> 0, statted |-> {}, statFailed |-> {}, verdicts |-> <<>>]

\* The read of .gitignore settles; the rules are merged and the files found.
LoadRules ==
  /\ pc = "rules"
  /\ filter' = [filter EXCEPT
                  !.rules = MergedRules(filter.gitignore, filter.ignorePatterns)]
  /\ log' = IF filter.gitignore.exists THEN log ELSE log \cup {NoGitignoreLog}
  /\ pc' = "filter"
  /\ UNCHANGED << attempts, think, disk, builder, config, filteredFiles, cancelled, i, fileSummaries,
                  fileSummariesMap, projectStructure, stack, call, projectSummary,
                  document, saved, webview, notifications, dispatched, requested,
                  cancelAt, aggLog, moduleSummaries, unreadable, failedModules,
                  run, second, opened, storeLog >>

\* One iteration of for (const file of allFiles).
FilterFile ==
  /\ pc = "filter"
  /\ filter.next < Len(AllFiles)
  /\ LET file == AllFiles[filter.next + 1]
         size == filter.sizes[filter.next + 1]
         ignored == Ignores(filter.rules, file)
     IN IF NeedsStat(ignored, filter.maxFileSize)
        THEN \E statOk \in BOOLEAN :
               LET verdict == IF ~statOk THEN "stat failed"
                              ELSE IF TooLarge(size, filter.maxFileSize)
                                   THEN "too large"
                                   ELSE IF ignored THEN "ignored" ELSE "included"
               IN /\ filter' = [filter EXCEPT
                                  !.next = IF statOk THEN @ + 1 ELSE AfterStatError(@),
                                  !.statted = @ \cup {file},
                                  !.statFailed = IF statOk THEN @ ELSE @ \cup {file},
                                  !.verdicts = Append(@, verdict)]
                  /\ filteredFiles' = IF verdict = "included"
                                      THEN Append(filteredFiles, file)
                                      ELSE filteredFiles
                  /\ log' = CASE verdict = "stat failed" -> log \cup {StatErrorLog(file)}
                              [] verdict = "too large" -> log \cup {SkipLog(file, size)}
                              [] OTHER -> log
        ELSE /\ filter' = [filter EXCEPT
                             !.next = @ + 1,
                             !.verdicts = Append(@, IF ignored THEN "ignored"
                                                    ELSE "included")]
             /\ filteredFiles' = IF ignored THEN filteredFiles
                                 ELSE Append(filteredFiles, file)
             /\ log' = log
  /\ UNCHANGED << attempts, think, disk, builder, config, pc, cancelled, i, fileSummaries,
                  fileSummariesMap, projectStructure, stack, call, projectSummary,
                  document, saved, webview, notifications, dispatched, requested,
                  cancelAt, aggLog, moduleSummaries, unreadable, failedModules,
                  run, second, opened, storeLog >>

\* The loop over allFiles is over: the run goes on to withProgress.
FilterEnd ==
  /\ pc = "filter"
  /\ filter.next = Len(AllFiles)
  /\ pc' = "loop"
  /\ UNCHANGED << attempts, think, disk, builder, filter, config, filteredFiles, cancelled, i,
                  fileSummaries, fileSummariesMap, projectStructure, stack, call,
                  projectSummary, document, saved, webview, notifications, log,
                  dispatched, requested, cancelAt, aggLog, moduleSummaries,
                  unreadable, failedModules, run, second, opened, storeLog >>

NextFilter ==
  \/ LoadRules
  \/ FilterFile
  \/ FilterEnd

SpecFilter == InitFilter /\ [][NextFilter]_vars

\* The filter under a positive limit, followed by the rest of the run with
\* no provider configured (so that no HTTP attempt is made) and no
\* cancellation.
InitFilterRun ==
  /\ InitFilter
  /\ filter.maxFileSize > 0

NextFilterRun ==
  \/ LoadRules
  \/ FilterFile
  \/ FilterEnd
  \/ LoopDispatch
  \/ LoopEnd
  \/ ReadSettles
  \/ AggVisitLeaf
  \/ AggDescend
  \/ AggInvoke
  \/ SaveSettles

SpecFilterRun == InitFilterRun /\ [][NextFilterRun]_vars


(***************************************************************************)
(* removeThinkTags on its own: applied to a reply, and again to what it    *)
(* returned.                                                               *)
(***************************************************************************)
MaxPieces == 5

\* A reply is made of tags, text and the two halves of an opening tag.
ThinkPieces ==
  { ThinkOpen, ThinkClose, <<"a">>, <<"<", "t", "h">>, <<"i", "n", "k", ">">> }

RECURSIVE Concat(_)
Concat(q) == IF Len(q) = 0 THEN <<>> ELSE q[1] \o Concat(Tail(q))

ThinkInputs ==
  UNION { { Concat(q) : q \in [1..n -> ThinkPieces] } : n \in 0..MaxPieces }

InitThink ==
  /\ RunLocals
  /\ config = NoProvider
  /\ filteredFiles = <<>>
  /\ pc = "done"
  /\ builder = NoBuilder
  /\ filter = NoFilter
  /\ disk = EmptyMap
  /\ \E input \in ThinkInputs : think = [input |-> input, results |-> <<>>]

\* removeThinkTags(response.data.response)
StripReply ==
  /\ think.results = <<>>
  /\ think' = [think EXCEPT !.results = << removeThinkTags(think.input) >>]
  /\ UNCHANGED << attempts, disk, builder, filter, config, filteredFiles, pc, cancelled, i,
                  fileSummaries, fileSummariesMap, projectStructure, stack, call,
                  projectSummary, document, saved, webview, notifications, log,
                  dispatched, requested, cancelAt, aggLog, moduleSummaries,
                  unreadable, failedModules, run, second, opened, storeLog >>

\* removeThinkTags applied to its own result.
StripAgain ==
  /\ Len(think.results) = 1
  /\ think' = [think EXCEPT !.results = Append(@, removeThinkTags(think.results[1]))]
  /\ UNCHANGED << attempts, disk, builder, filter, config, filteredFiles, pc, cancelled, i,
                  fileSummaries, fileSummariesMap, projectStructure, stack, call,
                  projectSummary, document, saved, webview, notifications, log,
                  dispatched, requested, cancelAt, aggLog, moduleSummaries,
                  unreadable, failedModules, run, second, opened, storeLog >>

NextThink ==
  \/ StripReply
  \/ StripAgain

SpecThink == InitThink /\ [][NextThink]_vars


(***************************************************************************)
(* A run with the prompt settings changed by the user.                     *)
(***************************************************************************)
\* docweaver.filePrompt: empty, white space only, a text, a padded text.
FilePrompts == { <<>>, <<" ", "\n">>, <<"F">>, <<" ", "F", "\n">> }

\* docweaver.modulePrompt
ModulePrompts == { <<>>, <<" ">>, <<"M">> }

PromptFiles == { << <<"a.txt">> >>, << <<"a.txt">>, <<"dir", "b.txt">> >> }

InitPrompts ==
  /\ RunLocals
  /\ \E filePrompt \in FilePrompts, modulePrompt \in ModulePrompts :
       config = [apiProvider |-> "ollama", openaiKey |-> "",
                 filePrompt |-> filePrompt, modulePrompt |-> modulePrompt] @@
                DefaultSettings
  /\ filteredFiles \in PromptFiles
  /\ pc = "loop"
  /\ builder = NoBuilder
  /\ filter = NoFilter
  /\ think = NoThink
  /\ disk = EmptyMap

SpecPrompts == InitPrompts /\ [][Next]_vars


(***************************************************************************)
(* A run that saves: the files found include two of one directory that     *)
(* differ in their extension only, and a root file named like the output   *)
(* file.  No provider is configured.                                       *)
(***************************************************************************)
SaveFiles ==
  << <<"DOCWEAVER_OUTPUT.txt">>, <<"src", "a.ts">>, <<"src", "a.js">>, <<"src", "b.txt">> >>

SaveFileLists ==
  { Filtered(SaveFiles, keep) : keep \in SUBSET (1..Len(SaveFiles)) }

InitSave ==
  /\ RunLocals
  /\ \E saveToFile \in BOOLEAN, outputFileName \in {"", "DOCWEAVER_OUTPUT.md"} :
       config = [NoProvider EXCEPT !.saveToFile = saveToFile,
                                   !.outputFileName = outputFileName]
  /\ filteredFiles \in SaveFileLists
  /\ pc = "loop"
  /\ builder = NoBuilder
  /\ filter = NoFilter
  /\ think = NoThink
  /\ disk = EmptyMap

NextSave ==
  \/ LoopDispatch
  \/ LoopBreak
  \/ LoopEnd
  \/ Cancel
  \/ ReadSettles
  \/ AggVisitLeaf
  \/ AggDescend
  \/ AggInvoke
  \/ SaveSettles

SpecSave == InitSave /\ [][NextSave]_vars


(***************************************************************************)
(* A run whose posts are counted, under fair scheduling: every step of     *)
(* the run that can be taken is taken, every pending axios.post settles    *)
(* and every backoff timer fires.  Cancelling is left to the user.         *)
(***************************************************************************)
LiveFileLists ==
  { <<>>, << <<"a.txt">> >>, << <<"dir", "sub", "c.txt">> >>,
    << <<"a.txt">>, <<"dir", "b.txt">> >> }

LiveConfigs == { c \in Configs : c.openaiKey # Undefined }

InitLive ==
  /\ RunHistories
  /\ attempts = 0
  /\ config \in LiveConfigs
  /\ filteredFiles \in LiveFileLists
  /\ pc = "loop"
  /\ builder = NoBuilder
  /\ filter = NoFilter
  /\ think = NoThink
  /\ disk = EmptyMap

\* The steps that do not wait for the user.
Progress ==
  \/ LoopDispatch
  \/ LoopBreak
  \/ LoopEnd
  \/ ReadSettles
  \/ HttpSettles
  \/ BackoffElapses
  \/ AggVisitLeaf
  \/ AggDescend
  \/ AggInvoke
  \/ SaveSettles

SpecLive == InitLive /\ [][Next]_vars /\ WF_vars(Progress)


(***************************************************************************)
(* Properties.                                                             *)
(***************************************************************************)
\* The withProgress loop is over: documentProject is past the file phase.
LoopOver ==
  \/ pc \in {"aggregate", "save", "done", "failed"}
  \/ pc \in {"http", "backoff"} /\ call.kind = "module"

RunEnded == pc \in {"done", "failed"}

AggCalls == { k \in 1..Len(aggLog) : aggLog[k].ev = "call" }

\* C1: once a directory's backend call has failed after all retries, no
\* placeholder stands for that directory's summary, no aggregation call
\* follows the failed one, no project summary or document is produced, and
\* the run has ended with the run-level failure notification as its only
\* notification.
C1_ModuleFailurePropagates ==
  \A d \in failedModules :
    /\ ~MapHas(moduleSummaries, d)
    /\ \A k \in AggCalls : aggLog[k].node = d => \A j \in AggCalls : j <= k
    /\ projectSummary = NoText
    /\ document = NoDocument
    /\ pc = "failed"
    /\ notifications = << RunFailedMessage >>

\* C2: in a run whose loop was broken by cancellation before every filtered
\* file was summarized, no aggregation backend call is made, the collected
\* summaries are neither stored in the map nor assembled nor saved, and the
\* run does not end reported as saved.
C2_CancelDiscardsPartial ==
  (cancelled /\ LoopOver /\ Len(fileSummaries) < Len(filteredFiles)) =>
    /\ AggCalls = {}
    /\ fileSummariesMap = EmptyMap
    /\ document = NoDocument
    /\ ~saved
    /\ SavedMessage \notin { notifications[k] : k \in 1..Len(notifications) }


\* C3: once cancellation is raised, the file in flight is the last one
\* dispatched: it completes and its summary is recorded, and no later file
\* of the filtered order gets a processSingleFile call or a backend request.
C3_NoDispatchAfterCancel ==
  cancelAt >= 0 =>
    /\ Len(dispatched) = cancelAt + 1
    /\ dispatched[cancelAt + 1] = filteredFiles[cancelAt + 1]
    /\ \A k \in (cancelAt + 2)..Len(filteredFiles) :
         /\ filteredFiles[k] \notin requested
         /\ ~InSeq(filteredFiles[k], dispatched)
    /\ LoopOver =>
         /\ Len(fileSummaries) = cancelAt + 1
         /\ fileSummaries[cancelAt + 1].file = filteredFiles[cancelAt + 1]

C3_Witness ==
  /\ cancelAt = 0
  /\ Len(filteredFiles) = 2
  /\ RunEnded
  /\ requested = { filteredFiles[1] }
  /\ Len(fileSummaries) = 1

\* C4: in a call with the default bound whose first two attempts failed, a
\* third attempt is made, and when it succeeds the caller gets its reply
\* after exactly three requests and two backoff delays, each delay after a
\* failed attempt and before the next request.
C4_ThirdAttemptSucceeds ==
  (call.kind # "none" /\ call.maxRetries = 2 /\ call.failures = 2) =>
    /\ call.status \in {"delay", "posting", "returned"}
    /\ call.status = "returned" =>
         /\ call.trace = <<"post", "fail", "sleep", "post", "fail", "sleep", "post", "ok">>
         /\ call.posts = 3
         /\ Len(call.delays) = 2
         /\ call.body = call.wire

C4_Witness ==
  /\ call.status = "returned"
  /\ call.failures = 2
  /\ call.posts = 3
  /\ call.body = <<"S">>

\* C5: every call makes at least 1 and at most 3 requests, none after a
\* successful one; when all 3 fail the error is thrown to the caller, with
\* two delays only (none after the third failure), and no call ends by
\* returning undefined.
C5_AttemptsBounded ==
  call.kind # "none" =>
    /\ call.posts >= 1
    /\ call.posts <= 3
    /\ call.posts = call.failures + (IF call.status \in {"posting", "returned"} THEN 1 ELSE 0)
    /\ \A k \in 1..Len(call.trace) :
         call.trace[k] = "ok" => k = Len(call.trace) /\ call.status = "returned"
    /\ call.failures = 3 =>
         /\ call.status = "thrown"
         /\ Len(call.delays) = 2
         /\ call.trace[Len(call.trace)] = "fail"
    /\ call.status = "thrown" => call.failures = 3
    /\ call.status # "undefined"

C5_Witness ==
  /\ call.status = "thrown"
  /\ call.failures = 3
  /\ call.posts = 3
  /\ call.kind = "module"

\* C6: the delay set after the k-th failed attempt of a call is 1000 * 2^k
\* ms: 2000 ms after the first, 4000 ms after the second.
C6_BackoffDoubles ==
  /\ Len(call.delays) = (IF call.failures <= 2 THEN call.failures ELSE 2)
  /\ \A k \in 1..Len(call.delays) : call.delays[k] = << 2000, 4000 >>[k]

C6_Witness == call.delays = << 2000, 4000 >> /\ call.status = "delay"

\* C7: when the call made for a file ends in failure, summarizeFile still
\* returns: the summary recorded for the file is the placeholder naming the
\* configured provider, and the error is logged with the file's path; a call
\* that succeeds records none of the placeholders.
C7_FileFailureIsPlaceholder ==
  (pc = "loop" /\ call.kind = "file") =>
    LET e == fileSummaries[Len(fileSummaries)]
    IN /\ e.file = call.path
       /\ call.status # "returned" =>
            /\ e.summary = (IF config.apiProvider = "ollama"
                            THEN <<"Summary not available (Ollama error).">>
                            ELSE <<"Summary not available (OpenAI error).">>)
            /\ \E l \in log :
                 /\ l.level = "ERROR"
                 /\ l.file = call.path
                 /\ l.msg = (IF config.apiProvider = "ollama"
                             THEN "Error calling Ollama API for file"
                             ELSE "Error calling OpenAI API for file")
       /\ call.status = "returned" =>
            e.summary \notin { <<"Summary not available (Ollama error).">>,
                               <<"Summary not available (OpenAI error).">>,
                               <<"Summary not available (error reading file).">> }

C7_Witness ==
  /\ pc = "loop"
  /\ call.kind = "file"
  /\ call.status = "thrown"
  /\ call.failures = 3
  /\ fileSummaries[Len(fileSummaries)].summary = <<"Summary not available (OpenAI error).">>

\* C8: with the hosted provider and an absent or empty key no request is ever issued
\* and no backoff delay set: every file that was read gets the no-key
\* placeholder and every directory the no-key module placeholder, which
\* differ from the placeholders of a network failure.
C8_NoKeyFailsFast ==
  (config.apiProvider = "openai" /\ config.openaiKey \in {"", Undefined}) =>
    /\ pc \notin {"http", "backoff"}
    /\ call = NoCall
    /\ requested = {}
    /\ \A k \in 1..Len(fileSummaries) :
         fileSummaries[k].summary =
           (IF fileSummaries[k].file \in unreadable
            THEN <<"Summary not available (error reading file).">>
            ELSE <<"Summary not available (no OpenAI key).">>)
    /\ \A d \in DOMAIN moduleSummaries :
         moduleSummaries[d] = <<"Module summary not available (no OpenAI key).">>
    /\ FileNoKeyText # FileOpenAIErrorText
    /\ ModuleNoKeyText # ModuleOpenAIErrorText

C8_Witness ==
  /\ config.apiProvider = "openai"
  /\ config.openaiKey = ""
  /\ pc = "done"
  /\ Len(fileSummaries) = 2
  /\ unreadable = {}
  /\ Cardinality(DOMAIN moduleSummaries) = 3

\* C9: when the loop ends without cancellation, the list holds exactly one
\* entry per filtered file, in the filtered order; every file was
\* dispatched, and a file whose read failed has the read-error placeholder.
C9_OneEntryPerFile ==
  (LoopOver /\ ~cancelled) =>
    /\ Len(fileSummaries) = Len(filteredFiles)
    /\ dispatched = filteredFiles
    /\ \A k \in 1..Len(filteredFiles) :
         /\ fileSummaries[k].file = filteredFiles[k]
         /\ filteredFiles[k] \in unreadable =>
              fileSummaries[k].summary = <<"Summary not available (error reading file).">>

C9_Witness ==
  /\ pc = "done"
  /\ ~cancelled
  /\ Len(filteredFiles) = 2
  /\ unreadable = { filteredFiles[1] }
  /\ Len(fileSummaries) = 2
  /\ fileSummaries[2].summary = <<"S">>

\* C10: the backend call of a directory begins only after every child has
\* resolved (a lookup for each child file, a returned call for each child
\* directory), and no backend call follows the root's.
C10_ChildrenBeforeParent ==
  \A k \in AggCalls :
    /\ \A c \in { projectStructure[n] : n \in 1..Len(projectStructure) } :
         IsChild(c, aggLog[k].node) =>
           \E j \in 1..(k - 1) :
             /\ aggLog[j].ev = (IF IsLeaf(projectStructure, c) THEN "lookup" ELSE "resolved")
             /\ aggLog[j].node = c
    /\ aggLog[k].node = <<>> => \A j \in AggCalls : j <= k

C10_Witness ==
  /\ pc = "done"
  /\ Cardinality(AggCalls) = 3
  /\ config.apiProvider = "ollama"
  /\ \E k \in AggCalls : aggLog[k].node = <<"dir", "sub">>

(***************************************************************************)
(* The aggregation traversal.                                              *)
(***************************************************************************)
\* The directories of the filtered files: the proper prefixes of their paths.
DirsOf(files) ==
  UNION { { SubSeq(files[n], 1, m) : m \in 1..(Len(files[n]) - 1) } : n \in 1..Len(files) }

Events(ev, node) == { k \in 1..Len(aggLog) : aggLog[k].ev = ev /\ aggLog[k].node = node }

AggregationOver == pc \in {"save", "done"}

\* C11: with a recognized provider no node is visited or called twice, and
\* when the traversal is over every file was looked up once, every
\* directory was entered and returned once, and the adapter calls are one
\* per directory plus one for the root, also for an empty project.
C11_OneCallPerDirectory ==
  config.apiProvider \in {"ollama", "openai"} =>
    /\ \A k \in 1..Len(aggLog) :
         Cardinality(Events(aggLog[k].ev, aggLog[k].node)) = 1
    /\ AggregationOver =>
         /\ Cardinality(AggCalls) = Cardinality(DirsOf(filteredFiles)) + 1
         /\ \A d \in DirsOf(filteredFiles) \cup {<<>>} :
              /\ Cardinality(Events("call", d)) = 1
              /\ Cardinality(Events("resolved", d)) = 1
              /\ Events("lookup", d) = {}
         /\ \A n \in 1..Len(filteredFiles) :
              /\ Cardinality(Events("lookup", filteredFiles[n])) = 1
              /\ Events("call", filteredFiles[n]) = {}

C11_Witness ==
  /\ config.apiProvider = "ollama"
  /\ filteredFiles = <<>>
  /\ pc = "done"
  /\ Cardinality(AggCalls) = 1
  /\ aggLog[1].frags = <<>>

\* C12: a leaf whose path has a record in the map pushes exactly the
\* fragment "File: <p>\nSummary: <summary>"; a leaf without a record pushes
\* nothing, and no adapter call is made for a leaf.
C12_LeafFragmentIffRecord ==
  \A k \in 1..Len(aggLog) :
    aggLog[k].ev = "lookup" =>
      LET p == aggLog[k].node
      IN /\ Events("call", p) = {}
         /\ aggLog[k].frags =
              (IF p \in DOMAIN fileSummariesMap
               THEN << <<"File: ">> \o PathText(p) \o <<"\nSummary: ">> \o fileSummariesMap[p] >>
               ELSE <<>>)

\* C13: the text a non-root directory returned is in its parent's list as
\* "Module: <d>\nSummary: <text>", and the project summary is the text the
\* root call returned, as it was returned.
C13_WrapperOnlyBelowRoot ==
  /\ \A n \in 1..Len(stack) :
       \A m \in 1..(stack[n].k - 1) :
         LET d == Keys(stack[n])[m]
         IN d \in DirsOf(filteredFiles) =>
              \E j \in 1..Len(stack[n].collected) :
                stack[n].collected[j] =
                  <<"Module: ">> \o PathText(d) \o <<"\nSummary: ">> \o moduleSummaries[d]
  /\ AggregationOver =>
       /\ Cardinality(Events("resolved", <<>>)) = 1
       /\ \A k \in Events("resolved", <<>>) : projectSummary = aggLog[k].text
       /\ DocProjectSummary(document) = projectSummary

C13_Witness ==
  /\ pc = "done"
  /\ config.apiProvider = "ollama"
  /\ filteredFiles = << <<"a.txt">>, <<"dir", "b.txt">> >>
  /\ projectSummary = <<"S">>
  /\ moduleSummaries[<<"dir">>] = <<"S">>

\* The fragments the children of p stand for, in key order: a file with a
\* non-empty summary its "File:" fragment, a directory its wrapped text.
ExpectedFragments(p) ==
  LET ch == ChildrenOf(projectStructure, p)
      frag(c) ==
        IF c \in DirsOf(filteredFiles)
        THEN << <<"Module: ">> \o PathText(c) \o <<"\nSummary: ">> \o moduleSummaries[c] >>
        ELSE IF c \in DOMAIN fileSummariesMap /\ fileSummariesMap[c] # <<>>
             THEN << <<"File: ">> \o PathText(c) \o <<"\nSummary: ">> \o fileSummariesMap[c] >>
             ELSE <<>>
      F[n \in 0..Len(ch)] == IF n = 0 THEN <<>> ELSE F[n - 1] \o frag(ch[n])
  IN F[Len(ch)]

MapWritten == LoopOver

\* C15: once the latest run has written the map, the map holds the record
\* of each entry of that run's list and no record for any other path.
C15_MapHoldsLatestRunOnly ==
  MapWritten =>
    /\ DOMAIN fileSummariesMap = { fileSummaries[k].file : k \in 1..Len(fileSummaries) }
    /\ \A k \in 1..Len(fileSummaries) :
         fileSummariesMap[fileSummaries[k].file] = fileSummaries[k].summary

\* C16: each path is written at most once by an invocation, an invocation
\* writes before its own first lookup, and no write happens while an
\* aggregation is in progress, also when the command is invoked again
\* before the earlier invocation has finished.
C16_WriteOnceReadMany ==
  /\ \A j, k \in 1..Len(storeLog) :
       (storeLog[j].invocation = storeLog[k].invocation /\ storeLog[j].path = storeLog[k].path)
         => j = k
  /\ (aggLog # <<>> /\ fileSummaries # <<>>) =>
       \E k \in 1..Len(storeLog) : storeLog[k].invocation = run
  /\ \A k \in 1..Len(storeLog) : ~storeLog[k].aggregating

(***************************************************************************)
(* The tree builder.                                                       *)
(***************************************************************************)
\* The nodes of a tree that have no child: the ends of its root-to-leaf paths.
LeafPaths(tree) == { p \in Range(tree) : ~\E q \in Range(tree) : IsChild(q, p) }

\* C17: the tree built from a list of paths and the tree built from any
\* other ordering of the same paths have the same nodes, hence the same
\* parent/child edges.
C17_OrderIndependent ==
  builder.built => Range(builder.tree) = Range(buildProjectStructure(builder.other))

\* C18: the root-to-leaf paths of the built tree are exactly the relative
\* paths of the files it was built from, whatever the segment names are.
C18_LeavesAreFiles ==
  builder.built => LeafPaths(builder.tree) = Range(builder.files)


\* The files the filter has decided on, by their place in the discovery order.
Decided == 1..filter.next

Included(file) == InSeq(file, filteredFiles)

IgnoredByRules(file) ==
  Ignores(MergedRules(filter.gitignore, filter.ignorePatterns), file)

\* C19: a candidate file whose relative path matches the merged ignore rules
\* (the .gitignore lines and the configured patterns) is not in the filtered
\* list, whatever its size and the configured limit, and is never statted.
C19_IgnoredExcludedNeverStatted ==
  pc # "rules" =>
    \A k \in Decided :
      IgnoredByRules(AllFiles[k]) =>
        /\ ~Included(AllFiles[k])
        /\ AllFiles[k] \notin filter.statted

\* The filter is done under a positive limit: dir/b.txt is ignored by the
\* .gitignore, dir/sub/c.txt by a configured pattern, each small enough to
\* pass the size test; only a.txt was statted, and it passed.
C19_Witness ==
  /\ pc = "loop"
  /\ filter.maxFileSize > 0
  /\ filter.gitignore.exists
  /\ IgnoredByRules(<<"dir", "b.txt">>)
  /\ ~Ignores(AddRules(<<>>, filter.gitignore.lines), <<"dir", "sub", "c.txt">>)
  /\ IgnoredByRules(<<"dir", "sub", "c.txt">>)
  /\ \A k \in 2..3 : filter.sizes[k] <= filter.maxFileSize
  /\ filter.statted = { <<"a.txt">> }
  /\ filteredFiles = << <<"a.txt">> >>

\* C20, as stated: a file that matches no ignore pattern is, under limit 0,
\* included without its size being read and, under a positive limit L,
\* included exactly when its size is at most L.
C20_IncludedIffWithinLimit ==
  pc # "rules" =>
    \A k \in Decided :
      ~IgnoredByRules(AllFiles[k]) =>
        /\ filter.maxFileSize = 0 =>
             Included(AllFiles[k]) /\ AllFiles[k] \notin filter.statted
        /\ filter.maxFileSize > 0 =>
             (Included(AllFiles[k]) <=> filter.sizes[k] <= filter.maxFileSize)

\* C20, amended: a file that matches no ignore pattern is, under limit 0,
\* included without being statted; under a positive limit L it is statted,
\* and it is included exactly when the stat succeeded and its size is at
\* most L (excluded when the size exceeds L or the stat failed).
C20_IncludedIffStatWithinLimit ==
  pc # "rules" =>
    \A k \in Decided :
      ~IgnoredByRules(AllFiles[k]) =>
        /\ filter.maxFileSize = 0 =>
             Included(AllFiles[k]) /\ AllFiles[k] \notin filter.statted
        /\ filter.maxFileSize > 0 =>
             /\ AllFiles[k] \in filter.statted
             /\ Included(AllFiles[k]) <=>
                  /\ AllFiles[k] \notin filter.statFailed
                  /\ filter.sizes[k] <= filter.maxFileSize

\* The filter is done under a positive limit with nothing ignored: a.txt is
\* exactly at the limit and was included, dir/b.txt is one byte over and was
\* skipped, dir/sub/c.txt is under the limit but its stat failed.
C20_Witness ==
  /\ pc = "loop"
  /\ filter.maxFileSize > 0
  /\ filter.rules = <<>>
  /\ filter.sizes[1] = filter.maxFileSize
  /\ filter.sizes[2] = filter.maxFileSize + 1
  /\ filter.sizes[3] < filter.maxFileSize
  /\ filter.statFailed = { <<"dir", "sub", "c.txt">> }
  /\ filter.verdicts = << "included", "too large", "stat failed" >>
  /\ filteredFiles = << <<"a.txt">> >>
  /\ SkipLog(<<"dir", "b.txt">>, filter.sizes[2]) \in log
  /\ StatErrorLog(<<"dir", "sub", "c.txt">>) \in log


\* The files of the entries of a file-summary list, in order.
FilesOf(summaries) == [k \in 1..Len(summaries) |-> summaries[k].file]

\* C21: under a positive size limit, a failed stat excludes the file it was
\* made for and nothing else: the error is logged, every other candidate is
\* still decided on its own rules and size, the run is not rejected, and the
\* loop summarizes exactly the files that passed.
C21_StatFailureExcludesThatFileOnly ==
  (filter.maxFileSize > 0 /\ pc \notin {"rules", "filter"}) =>
    /\ Len(filter.verdicts) = Len(AllFiles)
    /\ \A k \in 1..Len(AllFiles) :
         /\ AllFiles[k] \in filter.statFailed =>
              /\ ~Included(AllFiles[k])
              /\ StatErrorLog(AllFiles[k]) \in log
         /\ ( /\ AllFiles[k] \notin filter.statFailed
              /\ ~IgnoredByRules(AllFiles[k])
              /\ filter.sizes[k] <= filter.maxFileSize ) => Included(AllFiles[k])
    /\ pc # "failed"
    /\ ~InSeq(RunFailedMessage, notifications)
    /\ dispatched = SubSeq(filteredFiles, 1, Len(dispatched))
    /\ LoopOver => FilesOf(fileSummaries) = filteredFiles

\* The stat of the first candidate failed, the two after it passed, and the
\* run has ended with a summary for each of these two.
C21_Witness ==
  /\ pc = "done"
  /\ filter.maxFileSize > 0
  /\ filter.statFailed = { <<"a.txt">> }
  /\ filter.sizes[1] <= filter.maxFileSize
  /\ filter.verdicts = << "stat failed", "included", "included" >>
  /\ FilesOf(fileSummaries) = << <<"dir", "b.txt">>, <<"dir", "sub", "c.txt">> >>
  /\ DocFileSummaries(document) = fileSummaries


\* C22: removeThinkTags is idempotent: applied to its own result it returns
\* that result unchanged, for every input.
C22_StripIdempotent ==
  Len(think.results) = 2 => think.results[2] = think.results[1]

\* The nesting depth after s from position k on, entered at depth; -1 when a
\* closing tag has no opening tag before it.
RECURSIVE DepthFrom(_, _, _)
DepthFrom(s, k, depth) ==
  IF k > Len(s) THEN depth
  ELSE IF MatchAt(s, ThinkOpen, k) THEN DepthFrom(s, k + Len(ThinkOpen), depth + 1)
  ELSE IF MatchAt(s, ThinkClose, k)
       THEN IF depth = 0 THEN -1 ELSE DepthFrom(s, k + Len(ThinkClose), depth - 1)
  ELSE DepthFrom(s, k + 1, depth)

\* The tags of s pair up into spans, side by side or nested, at least one.
HasSpans(s) == DepthFrom(s, 1, 0) = 0 /\ FindFrom(s, ThinkOpen, 1) # 0

\* The characters of s that lie in no span.
RECURSIVE OutsideFrom(_, _, _)
OutsideFrom(s, k, depth) ==
  IF k > Len(s) THEN <<>>
  ELSE IF MatchAt(s, ThinkOpen, k) THEN OutsideFrom(s, k + Len(ThinkOpen), depth + 1)
  ELSE IF MatchAt(s, ThinkClose, k) THEN OutsideFrom(s, k + Len(ThinkClose), depth - 1)
  ELSE (IF depth = 0 THEN <<s[k]>> ELSE <<>>) \o OutsideFrom(s, k + 1, depth)

\* C23: for a reply holding several spans, side by side or nested, the text
\* removeThinkTags returns is the text that lay outside every span: nothing
\* from inside a span is left, and no closing tag.
C23_AllSpansRemoved ==
  (think.results # <<>> /\ HasSpans(think.input)) =>
    /\ think.results[1] = OutsideFrom(think.input, 1, 0)
    /\ FindFrom(think.results[1], ThinkClose, 1) = 0


\* The template a role's prompt is to carry: the override unless it is empty
\* or white space only (surrounding white space aside).
EffectiveTemplate(override, default) ==
  IF Len(Trim(override)) > 0 THEN Trim(override) ELSE Trim(default)

StartsWith(text, prefix) ==
  Len(prefix) <= Len(text) /\ SubSeq(text, 1, Len(prefix)) = prefix

\* C24: the prompt of every file request starts with the configured file
\* prompt, and the prompt of every module request with the configured module
\* prompt, when that setting is neither empty nor white space only, and with
\* the built-in default of the role otherwise.
C24_OverrideOrDefault ==
  /\ (call.kind = "file" /\ call.status # "idle") =>
       StartsWith(call.prompt,
                  EffectiveTemplate(config.filePrompt, DEFAULT_FILE_PROMPT) \o <<"\n">>)
  /\ \A k \in AggCalls :
       StartsWith(aggLog[k].text,
                  EffectiveTemplate(config.modulePrompt, DEFAULT_MODULE_PROMPT) \o <<"\n\n">>)


\* No recognized provider is configured.
FallbackProvider == config.apiProvider \notin {"ollama", "openai"}

\* The lines of a content up to the fifth, one per line.
UpToFive(lines) ==
  Join([k \in 1..(IF Len(lines) < 5 THEN Len(lines) ELSE 5) |-> lines[k]], <<"\n">>)

\* The file-summary list a run without a provider builds from the files it
\* has handled: five lines of each file read, the fixed text for the others.
FallbackSummaries(files, failed) ==
  [k \in 1..Len(files) |->
     [file |-> files[k],
      summary |-> IF files[k] \in failed THEN ReadErrorText
                  ELSE UpToFive(Content(files[k]))]]

\* C25: with a provider that is neither ollama nor openai a run posts
\* nothing and is never rejected; the summary of every file read is the
\* first 5 lines of its content, every directory's text is its fragments
\* joined by blank lines, and the document is a function of the files the
\* loop handled and of which reads failed.
C25_FallbackNeedsNoBackend ==
  FallbackProvider =>
    /\ requested = {}
    /\ call = NoCall
    /\ pc # "failed"
    /\ ~InSeq(RunFailedMessage, notifications)
    /\ fileSummaries = FallbackSummaries(SubSeq(filteredFiles, 1, Len(fileSummaries)),
                                         unreadable)
    /\ \A d \in DOMAIN moduleSummaries :
         moduleSummaries[d] = Join(ExpectedFragments(d), <<"\n\n">>)
    /\ pc = "done" =>
         /\ DocFileSummaries(document) =
              FallbackSummaries(SubSeq(filteredFiles, 1, Len(fileSummaries)), unreadable)
         /\ DocProjectSummary(document) = Join(ExpectedFragments(<<>>), <<"\n\n">>)
         /\ DocProjectStructure(document) = buildProjectStructure(filteredFiles)

\* A finished run without a provider over the three files, all read: a.txt
\* is summarized by five of its six lines, and the project summary is the
\* two fragments of the root.
C25_Witness ==
  /\ pc = "done"
  /\ FallbackProvider
  /\ filteredFiles = AllFiles
  /\ unreadable = {}
  /\ fileSummaries[1].summary = <<"l1", "\n", "l2", "\n", "l3", "\n", "l4", "\n", "l5">>
  /\ DocProjectSummary(document) =
       <<"File: ", "a.txt", "\nSummary: ", "l1", "\n", "l2", "\n", "l3", "\n", "l4",
         "\n", "l5", "\n\n",
         "Module: ", "dir", "\nSummary: ", "File: ", "dir", "/", "b.txt",
         "\nSummary: ", "code of ", "b.txt", "\n\n",
         "Module: ", "dir", "/", "sub", "\nSummary: ">>


\* The step assembles the document.
Assembles == document' # document /\ document' # NoDocument

\* C26: the document is, in this order, the navigation aid, the project
\* summary, one subsection per entry of the file-summary list in the list's
\* order, which is the order in which the files were found, and the
\* serialized tree; the step that assembles it issues no
\* request and leaves the list and the tree as they were.
C26_FixedSectionOrder ==
  /\ [](document # NoDocument =>
          /\ Len(document) = Len(fileSummaries) + 3
          /\ document[1].section = "tableOfContents"
          /\ document[2].section = "projectSummary"
          /\ document[2].text = projectSummary
          /\ \A k \in 1..Len(fileSummaries) :
               /\ document[2 + k].section = "file"
               /\ document[2 + k].file = fileSummaries[k].file
               /\ document[2 + k].text = fileSummaries[k].summary
          /\ document[Len(document)].section = "projectStructure"
          /\ document[Len(document)].tree = projectStructure
          /\ FilesOf(fileSummaries) = SubSeq(filteredFiles, 1, Len(fileSummaries)))
  /\ [][Assembles =>
          /\ fileSummaries' = fileSummaries
          /\ projectStructure' = projectStructure
          /\ requested' = requested
          /\ call'.posts = call.posts]_vars

\* A document of two file subsections, a.txt before dir/b.txt as discovered.
C26_Witness ==
  /\ pc = "done"
  /\ filteredFiles = << <<"a.txt">>, <<"dir", "b.txt">> >>
  /\ Len(document) = 5
  /\ document[3].file = <<"a.txt">>
  /\ document[4].file = <<"dir", "b.txt">>
  /\ document[5].tree = << <<"a.txt">>, <<"dir">>, <<"dir", "b.txt">> >>


\* C27: with saveToFile set to false a run writes nothing: no folder, no
\* document file and no summary file is created, and no save is reported.
C27_NoSaveUnlessEnabled ==
  ~config.saveToFile =>
    /\ disk = EmptyMap
    /\ ~saved
    /\ ~InSeq(SavedMessage, notifications)

\* C30: after a save step that reported success, the document and every
\* entry of the file-summary list were written to pairwise distinct paths:
\* the output file holds the document and each file's target holds that
\* file's summary.
C30_SaveTargetsDistinct ==
  (pc = "done" /\ saved) =>
    LET out == << OutputFileName(config.outputFileName) >>
    IN /\ out \in DOMAIN disk
       /\ disk[out].kind = "document"
       /\ disk[out].document = document
       /\ \A k \in 1..Len(fileSummaries) :
            LET target == TargetPath(fileSummaries[k].file)
            IN /\ target # out
               /\ target \in DOMAIN disk
               /\ disk[target].kind = "summary"
               /\ disk[target].file = fileSummaries[k].file
               /\ disk[target].summary = fileSummaries[k].summary
       /\ Cardinality(DOMAIN disk) = Len(fileSummaries) + 1


\* C28: every file with an entry in the file-summary list, whatever its
\* summary (the empty text included), puts exactly one "File:" fragment with
\* that summary into the list of its parent directory, and its summary is
\* shown when it is opened through extension.openFileDocumentation.
C28_EveryEntryHasFragmentAndOpens ==
  /\ \A k \in 1..Len(aggLog) :
       (aggLog[k].ev = "lookup" /\ InSeq(aggLog[k].node, FilesOf(fileSummaries))) =>
         /\ Len(aggLog[k].frags) = 1
         /\ StartsWith(aggLog[k].frags[1], <<"File: ">> \o PathText(aggLog[k].node))
  /\ \A k \in 1..Len(opened) : opened[k].present => opened[k].shown


\* C29: a run whose HTTP attempts all settle ends, and the number of
\* axios.post calls it makes never exceeds 3 * (number of filtered files +
\* number of directories + 1).
C29_RunEndsWithinAttemptBound ==
  /\ <>RunEnded
  /\ [](attempts <=
          3 * (Len(filteredFiles) + Cardinality(DirsOf(filteredFiles)) + 1))

\* A finished run over a.txt and dir/b.txt that used every attempt the bound
\* allows: three for each file, three for dir and three for the root.
C29_Witness ==
  /\ pc = "done"
  /\ filteredFiles = << <<"a.txt">>, <<"dir", "b.txt">> >>
  /\ attempts = 12

=============================================================================
